---- MODULE Spec2Model ----
(***************************************************************************)
(* Model of trading-simulator/backtest.py: the SMA-crossover backtest.     *)
(*                                                                         *)
(* Series are sequences indexed from 1 (row t of the model is row t-1 of   *)
(* the DataFrame).  Floating-point values are modelled as exact rationals  *)
(* <<n, d>> in lowest terms with d > 0; NaN is the pair <<0, 0>>.          *)
(***************************************************************************)
EXTENDS Integers, Sequences, FiniteSets

VARIABLES pc, entry, err, Close, ret, fast, slow, cost_rate,
          sma_fast, sma_slow, signal, position,
          strat_ret, costs, eq_s, eq_bh, daily, roll_max, dd, perf

vars == <<pc, entry, err, Close, ret, fast, slow, cost_rate,
          sma_fast, sma_slow, signal, position,
          strat_ret, costs, eq_s, eq_bh, daily, roll_max, dd, perf>>

(* ---------------------------- bounds ----------------------------------- *)
MaxLen == 4
MaxPrice == 2
MaxWin == 3
LongPrefix == 3
\* rows evaluated per level of a loop's recursion
Block == 16

(* ----------------------- program constants ----------------------------- *)
TRADING_DAYS == 252

(* ------------------------- float arithmetic ---------------------------- *)
NaN == <<0, 0>>
isna(x) == x[2] = 0
R(n) == <<n, 1>>

Abs(n) == IF n < 0 THEN -n ELSE n
Min(a, b) == IF a < b THEN a ELSE b

RECURSIVE GCD(_, _)
GCD(a, b) == IF b = 0 THEN a ELSE GCD(b, a % b)

Norm(n, d) ==
    LET g == GCD(Abs(n), Abs(d))
        s == IF d < 0 THEN -1 ELSE 1
    IN  <<(s * n) \div g, (s * d) \div g>>

RAdd(x, y) ==
    IF isna(x) \/ isna(y) THEN NaN
    ELSE LET g == GCD(x[2], y[2])
         IN  Norm(x[1] * (y[2] \div g) + y[1] * (x[2] \div g), x[2] * (y[2] \div g))

RNeg(x) == IF isna(x) THEN NaN ELSE <<-x[1], x[2]>>

RSub(x, y) == RAdd(x, RNeg(y))

RMul(x, y) ==
    IF isna(x) \/ isna(y) THEN NaN
    ELSE LET a == Norm(x[1], y[2])
             b == Norm(y[1], x[2])
         IN  <<a[1] * b[1], a[2] * b[2]>>

\* x / y for y nonzero: every division of the program has a nonzero divisor
RDiv(x, y) ==
    IF isna(x) \/ isna(y) THEN NaN
    ELSE LET s == IF y[1] < 0 THEN -1 ELSE 1
         IN  RMul(x, <<s * y[2], s * y[1]>>)

RAbs(x) == <<Abs(x[1]), x[2]>>

\* IEEE comparison: any comparison with NaN is False
RGt(x, y) ==
    /\ ~isna(x)
    /\ ~isna(y)
    /\ LET g == GCD(x[2], y[2])
       IN  x[1] * (y[2] \div g) > y[1] * (x[2] \div g)

RLt(x, y) == RGt(y, x)

(* --------------------------- pandas series ----------------------------- *)
\* a Series holds its values: the function is turned into a tuple
Series(f) == f \o <<>>

RECURSIVE SumRange(_, _, _)
SumRange(s, lo, hi) == IF lo > hi THEN 0 ELSE s[hi] + SumRange(s, lo, hi - 1)

\* Series.pct_change(): r_t = P_t / P_{t-1} - 1, NaN on the first row
pct_change(s) ==
    Series([t \in 1..Len(s) |->
        IF t = 1 THEN NaN ELSE RSub(RDiv(R(s[t]), R(s[t - 1])), R(1))])

\* (mutation) min_periods=1: a partial window yields the mean of what is there
rolling_mean_partial(s, w) ==
    Series([t \in 1..Len(s) |->
        IF t < w THEN Norm(SumRange(s, 1, t), t)
        ELSE Norm(SumRange(s, t - w + 1, t), w)])

\* Series.rolling(w, min_periods=w).mean(): NaN until w rows are available
rolling_mean(s, w) ==
    Series([t \in 1..Len(s) |->
        IF t < w THEN NaN ELSE Norm(SumRange(s, t - w + 1, t), w)])

\* (mutation) >= in place of >
ge_int(a, b) ==
    Series([t \in 1..Len(a) |->
        IF RGt(a[t], b[t]) \/ (~isna(a[t]) /\ a[t] = b[t]) THEN 1 ELSE 0])

\* (a > b).astype(int)
gt_int(a, b) == Series([t \in 1..Len(a) |-> IF RGt(a[t], b[t]) THEN 1 ELSE 0])

\* (mutation) no shift: the same bar's value
shift_same(s) == Series([t \in 1..Len(s) |-> R(s[t])])

\* Series.shift(1) of an integer series: the result is a float series
shift(s) == Series([t \in 1..Len(s) |-> IF t = 1 THEN NaN ELSE R(s[t - 1])])

\* Series.fillna(0)
fillna0(s) == Series([t \in 1..Len(s) |-> IF isna(s[t]) THEN R(0) ELSE s[t]])

\* Series.fillna(other)
fillna(s, other) == Series([t \in 1..Len(s) |-> IF isna(s[t]) THEN other[t] ELSE s[t]])

\* Series.diff()
diff(s) == Series([t \in 1..Len(s) |-> IF t = 1 THEN NaN ELSE RSub(s[t], s[t - 1])])

\* Series.abs()
sabs(s) == Series([t \in 1..Len(s) |-> IF isna(s[t]) THEN NaN ELSE RAbs(s[t])])

smul(a, b) == Series([t \in 1..Len(a) |-> RMul(a[t], b[t])])
ssub(a, b) == Series([t \in 1..Len(a) |-> RSub(a[t], b[t])])
sdiv(a, b) == Series([t \in 1..Len(a) |-> RDiv(a[t], b[t])])
scale(s, r) == Series([t \in 1..Len(s) |-> RMul(s[t], r)])
sadd(s, r) == Series([t \in 1..Len(s) |-> RAdd(s[t], r)])

\* Series.cumprod()
\* rows up to hi are appended to out, the running products so far
RECURSIVE cumprod_run(_, _, _)
cumprod_run(s, hi, out) ==
    IF Len(out) >= hi THEN out
    ELSE LET i == Len(out) + 1
         IN  cumprod_run(s, hi,
                Append(out, IF i = 1 THEN s[1] ELSE RMul(out[i - 1], s[i])))

RECURSIVE cumprod_from(_, _)
cumprod_from(s, out) ==
    IF Len(out) >= Len(s) THEN out
    ELSE cumprod_from(s, cumprod_run(s, Min(Len(out) + Block, Len(s)), out))

cumprod(s) == cumprod_from(s, <<>>)

\* (mutation) the running maximum forgotten: the series itself
cummax_self(s) == s

\* Series.cummax()
RECURSIVE cummax_run(_, _, _)
cummax_run(s, hi, out) ==
    IF Len(out) >= hi THEN out
    ELSE LET i == Len(out) + 1
         IN  cummax_run(s, hi,
                Append(out, IF i = 1 THEN s[1]
                            ELSE IF RGt(s[i], out[i - 1]) THEN s[i]
                            ELSE out[i - 1]))

RECURSIVE cummax_from(_, _)
cummax_from(s, out) ==
    IF Len(out) >= Len(s) THEN out
    ELSE cummax_from(s, cummax_run(s, Min(Len(out) + Block, Len(s)), out))

cummax(s) == cummax_from(s, <<>>)

\* Series.dropna()
dropna(s) == SelectSeq(s, LAMBDA x : ~isna(x))

\* Series.sum() of a series without NaN, rows i..hi added to acc
RECURSIVE rsum_run(_, _, _, _)
rsum_run(s, i, hi, acc) ==
    IF isna(acc) \/ i > hi THEN acc
    ELSE rsum_run(s, i + 1, hi, RAdd(acc, s[i]))

RECURSIVE rsum_from(_, _, _)
rsum_from(s, i, acc) ==
    IF isna(acc) \/ i > Len(s) THEN acc
    ELSE rsum_from(s, i + Block,
            rsum_run(s, i, Min(i + Block - 1, Len(s)), acc))

rsum(s) == rsum_from(s, 1, R(0))

\* Series.mean(): NaN for an empty series
mean(s) == IF Len(s) = 0 THEN NaN ELSE RDiv(rsum(s), R(Len(s)))

\* (mutation) the population variance, ddof=0
var_ddof0(s) ==
    IF Len(s) < 1 THEN NaN
    ELSE LET m == mean(s)
             sq == Series([t \in 1..Len(s) |-> RMul(RSub(s[t], m), RSub(s[t], m))])
         IN  RDiv(rsum(sq), R(Len(s)))

\* Series.std(ddof=1), held as its square: NaN with fewer than two values
var_ddof1(s) ==
    IF Len(s) < 2 THEN NaN
    ELSE LET m == mean(s)
             sq == Series([t \in 1..Len(s) |-> RMul(RSub(s[t], m), RSub(s[t], m))])
         IN  RDiv(rsum(sq), R(Len(s) - 1))

\* Series.min()
RECURSIVE smin_run(_, _, _, _)
smin_run(s, i, hi, acc) ==
    IF isna(acc) \/ i > hi THEN acc
    ELSE smin_run(s, i + 1, hi, IF RLt(s[i], acc) THEN s[i] ELSE acc)

RECURSIVE smin_from(_, _, _)
smin_from(s, i, acc) ==
    IF isna(acc) \/ i > Len(s) THEN acc
    ELSE smin_from(s, i + Block,
            smin_run(s, i, Min(i + Block - 1, Len(s)), acc))

smin(s) == IF Len(s) = 0 THEN NaN ELSE smin_from(s, 2, s[1])

\* (mutation) a lenient accessor: NaN for an empty series
iloc_last_lenient(s) ==
    IF Len(s) = 0 THEN [raised |-> FALSE, val |-> NaN]
    ELSE [raised |-> FALSE, val |-> s[Len(s)]]

\* Series.iloc[-1]: IndexError on an empty series
iloc_last(s) ==
    IF Len(s) = 0 THEN [raised |-> TRUE, val |-> NaN]
    ELSE [raised |-> FALSE, val |-> s[Len(s)]]

(* ------------------------- backtest.py --------------------------------- *)
\* sma_crossover_signals: the columns added to the copy of df
sma_crossover_signals_out(close, f, s) ==
    LET sf  == rolling_mean(close, f)
        ss  == rolling_mean(close, s)
        sig == gt_int(sf, ss)
    IN  [sma_fast |-> sf, sma_slow |-> ss, signal |-> sig,
         position |-> fillna0(shift(sig))]

\* (mutation) the first row filled with 0 instead of |pos|
apply_transaction_costs_fill0(pos, rate) ==
    scale(fillna0(sabs(diff(pos))), rate)

\* apply_transaction_costs(pos, rate)
apply_transaction_costs(pos, rate) ==
    LET trades == fillna(sabs(diff(pos)), sabs(pos))
    IN  scale(trades, rate)

\* cagr = nan; if n > 252: cagr = final_eq ** (252 / n) - 1
\* The power is kept as its operands: the value is base^exp - 1.
NoCagr == [defined |-> FALSE, base |-> NaN, exp |-> NaN]

\* (mutation) n >= 252
cagr_of_ge(final_eq, n) ==
    IF n >= TRADING_DAYS
    THEN [defined |-> TRUE, base |-> final_eq, exp |-> Norm(TRADING_DAYS, n)]
    ELSE NoCagr

cagr_of(final_eq, n) ==
    IF n > TRADING_DAYS
    THEN [defined |-> TRUE, base |-> final_eq, exp |-> Norm(TRADING_DAYS, n)]
    ELSE NoCagr

\* sharpe = (mu / sigma) * sqrt(252) if sigma > 0 else nan
\* sigma is held as its square; the value is mu / sqrt(var) * sqrt(ann).
NoSharpe == [defined |-> FALSE, mu |-> NaN, var |-> NaN, ann |-> 0]

sharpe_of(mu, var) ==
    IF RGt(var, R(0))
    THEN [defined |-> TRUE, mu |-> mu, var |-> var, ann |-> TRADING_DAYS]
    ELSE NoSharpe

\* underwater = dd < 0
underwater_of(d) == Series([t \in 1..Len(d) |-> RLt(d[t], R(0))])

\* for flag in underwater: cur = cur + 1 if flag else 0; max_dd_days = max(...)
\* (mutation) the counter is not reset on a bar at the running maximum
dd_days_step_noreset(flag, st) ==
    LET cur == IF flag THEN st[1] + 1 ELSE st[1]
    IN  <<cur, IF cur > st[2] THEN cur ELSE st[2]>>

\* The loop state is <<cur, max_dd_days>>.
dd_days_step(flag, st) ==
    LET cur == IF flag THEN st[1] + 1 ELSE 0
    IN  <<cur, IF cur > st[2] THEN cur ELSE st[2]>>

RECURSIVE dd_days_run(_, _, _, _)
dd_days_run(flags, i, hi, st) ==
    IF st[1] < 0 \/ i > hi THEN st
    ELSE dd_days_run(flags, i + 1, hi, dd_days_step(flags[i], st))

RECURSIVE dd_days_loop(_, _, _)
dd_days_loop(flags, i, st) ==
    IF st[1] < 0 \/ i > Len(flags) THEN st
    ELSE dd_days_loop(flags, i + Block,
            dd_days_run(flags, i, Min(i + Block - 1, Len(flags)), st))

max_dd_days_of(flags) == dd_days_loop(flags, 1, <<0, 0>>)[2]

NoPerf == [final_equity |-> NaN, cagr |-> NoCagr, sharpe |-> NoSharpe,
           max_dd |-> NaN, max_dd_days |-> 0]

(* ----------------------------- inputs ---------------------------------- *)
Prices == 1..MaxPrice
Windows == 1..MaxWin
Rates == {<<0, 1>>, <<1, 10>>, <<1, 1>>}

ShortCloses == UNION {[1..n -> Prices] : n \in 0..MaxLen}

\* a hundred rows, and about a year of rows: a free prefix, then a flat price
LongLens == {101, TRADING_DAYS, TRADING_DAYS + 1, TRADING_DAYS + 2}
LongCloses ==
    {[t \in 1..L |-> IF t <= LongPrefix THEN pre[t] ELSE pre[LongPrefix]] :
        pre \in [1..LongPrefix -> Prices], L \in LongLens}

Positions(n) == [1..n -> {R(0), R(1)}]

Unset ==
    /\ sma_fast = <<>> /\ sma_slow = <<>> /\ signal = <<>>
    /\ strat_ret = <<>> /\ costs = <<>> /\ eq_s = <<>> /\ eq_bh = <<>>
    /\ daily = <<>> /\ roll_max = <<>> /\ dd = <<>> /\ perf = NoPerf

\* main(): the provider's rows go through the whole pipeline
InitMain ==
    /\ entry = "main" /\ pc = "start"
    /\ Close \in ShortCloses
    /\ fast \in Windows /\ slow \in Windows
    /\ ret = <<>> /\ position = <<>>

\* main() on a long history
InitYear ==
    /\ entry = "main" /\ pc = "start"
    /\ Close \in LongCloses
    /\ fast = 1 /\ slow = 2
    /\ ret = <<>> /\ position = <<>>

\* sma_crossover_signals called on a frame the caller built: the empty
\* frame, which download_prices never hands to main()
InitSignals ==
    /\ entry = "signals" /\ pc = "downloaded"
    /\ Close = <<>>
    /\ fast \in Windows /\ slow \in Windows
    /\ ret = pct_change(Close) /\ position = <<>>

\* equity_and_perf called on a frame the caller built
InitPerf ==
    /\ entry = "perf" /\ pc = "signalled"
    /\ Close \in ShortCloses
    /\ fast = 1 /\ slow = 2
    /\ ret = pct_change(Close)
    /\ position \in Positions(Len(Close))

Init ==
    /\ err = "none"
    /\ cost_rate \in Rates
    /\ Unset
    /\ (InitMain \/ InitSignals \/ InitPerf)

(* ----------------------------- actions --------------------------------- *)
download_prices ==
    /\ pc = "start"
    /\ IF Len(Close) = 0
       THEN /\ pc' = "error" /\ err' = "ValueError" /\ ret' = ret
       ELSE /\ pc' = "downloaded" /\ err' = err /\ ret' = pct_change(Close)
    /\ UNCHANGED <<entry, Close, fast, slow, cost_rate, sma_fast, sma_slow,
                   signal, position, strat_ret, costs, eq_s, eq_bh, daily,
                   roll_max, dd, perf>>

sma_crossover_signals ==
    /\ pc = "downloaded"
    /\ LET out == sma_crossover_signals_out(Close, fast, slow)
       IN  /\ sma_fast' = out.sma_fast
           /\ sma_slow' = out.sma_slow
           /\ signal' = out.signal
           /\ position' = out.position
    /\ pc' = "signalled"
    /\ UNCHANGED <<entry, err, Close, ret, fast, slow, cost_rate, strat_ret,
                   costs, eq_s, eq_bh, daily, roll_max, dd, perf>>

equity_and_perf ==
    /\ pc = "signalled"
    /\ LET strat_ret_raw == smul(position, ret)
           c         == apply_transaction_costs(position, cost_rate)
           sr        == ssub(strat_ret_raw, c)
           es        == cumprod(sadd(fillna0(sr), R(1)))
           eb        == cumprod(sadd(fillna0(ret), R(1)))
           dly       == dropna(sr)
           last      == iloc_last(es)
           n         == Len(dly)
           rm        == cummax(es)
           d         == sadd(sdiv(es, rm), R(-1))
       IN  IF last.raised
           THEN /\ pc' = "error" /\ err' = "IndexError"
                /\ UNCHANGED <<strat_ret, costs, eq_s, eq_bh, daily, roll_max,
                               dd, perf>>
           ELSE /\ pc' = "done" /\ err' = err
                /\ strat_ret' = sr /\ costs' = c /\ eq_s' = es /\ eq_bh' = eb
                /\ daily' = dly /\ roll_max' = rm /\ dd' = d
                /\ perf' = [final_equity |-> last.val,
                            cagr |-> cagr_of(last.val, n),
                            sharpe |-> sharpe_of(mean(dly), var_ddof1(dly)),
                            max_dd |-> smin(d),
                            max_dd_days |-> max_dd_days_of(underwater_of(d))]
    /\ UNCHANGED <<entry, Close, ret, fast, slow, cost_rate, sma_fast,
                   sma_slow, signal, position>>

Next == download_prices \/ sma_crossover_signals \/ equity_and_perf

Spec == Init /\ [][Next]_vars

InitLong ==
    /\ err = "none"
    /\ cost_rate \in Rates
    /\ Unset
    /\ InitYear

SpecYear == InitLong /\ [][Next]_vars

(* ----------------------------- properties ------------------------------ *)
\* sma_crossover_signals has returned its rows (a frame built by the caller
\* of equity_and_perf has not gone through it)
SmaRan ==
    /\ entry # "perf"
    /\ pc \in {"signalled", "done"} \/ err = "IndexError"

RECURSIVE TrailSum(_, _, _)
TrailSum(c, t, w) == IF w = 0 THEN 0 ELSE c[t] + TrailSum(c, t - 1, w - 1)

\* the crossover rule on integers: both windows full at t and
\* mean of the last f closes > mean of the last sl closes
Crossed(c, f, sl, t) ==
    /\ t >= f
    /\ t >= sl
    /\ TrailSum(c, t, f) * sl > TrailSum(c, t, sl) * f

Prefix(c, t) == SubSeq(c, 1, t)

\* C1: no look-ahead. The rows returned by sma_crossover_signals have
\* position[0] = 0 and position[t] = signal[t-1] for t >= 1, and position[t]
\* is what the crossover rule gives on the closes before t alone.
C1_NoLookAhead ==
    SmaRan =>
        /\ Len(position) = Len(Close)
        /\ Len(signal) = Len(Close)
        /\ \A t \in 1..Len(Close) :
              IF t = 1 THEN position[t] = R(0)
              ELSE /\ position[t] = R(signal[t - 1])
                   /\ position[t] = R(1)
                        <=> Crossed(Prefix(Close, t - 1), fast, slow, t - 1)

\* a bar in the market on the previous bar's signal while its own signal is 0
C1_Witness ==
    /\ SmaRan
    /\ \E t \in 2..Len(Close) :
          position[t] = R(1) /\ signal[t] = 0 /\ signal[t - 1] = 1

\* C2: signal[t] = 1 exactly when both moving averages are defined at t and
\* the mean of the trailing fast closes is strictly greater than the mean of
\* the trailing slow closes, else 0; a moving average is undefined until its
\* window is full; closes [100,105,103,110] with fast=1, slow=2 give signal
\* [0,1,0,1] and position [0,0,1,0].
C2_SignalRule ==
    /\ SmaRan =>
          \A t \in 1..Len(Close) :
             /\ signal[t] = (IF Crossed(Close, fast, slow, t) THEN 1 ELSE 0)
             /\ isna(sma_fast[t]) <=> t < fast
             /\ isna(sma_slow[t]) <=> t < slow
             /\ t >= fast => sma_fast[t][1] * fast
                               = TrailSum(Close, t, fast) * sma_fast[t][2]
             /\ t >= slow => sma_slow[t][1] * slow
                               = TrailSum(Close, t, slow) * sma_slow[t][2]
    /\ LET a == sma_crossover_signals_out(<<100, 105, 103, 110>>, 1, 2)
       IN  /\ a.signal = <<0, 1, 0, 1>>
           /\ a.position = <<R(0), R(0), R(1), R(0)>>
           /\ a.sma_slow = <<NaN, <<205, 2>>, R(104), <<213, 2>>>>

\* the three cases on one run: an undefined average, a crossing above, and
\* both averages defined with the fast one not above
C2_Witness ==
    /\ SmaRan
    /\ fast < slow
    /\ \E t \in 1..Len(Close) : isna(sma_slow[t]) /\ ~isna(sma_fast[t])
    /\ \E t \in 1..Len(Close) : signal[t] = 1
    /\ \E t \in 1..Len(Close) : t >= slow /\ signal[t] = 0

Changed(pos, t) == IF t = 1 THEN pos[1] # R(0) ELSE pos[t] # pos[t - 1]

\* C3: cost[0] = r*|position[0]|, cost[t] = r*|position[t] - position[t-1]|:
\* r on each bar where the position changes, 0 on every other bar, so one
\* entry and one exit cost 2r; position [0,1,0,1] with r = 0.01 gives
\* [0, 0.01, 0.01, 0.01].
C3_Costs ==
    /\ pc = "done" =>
          /\ Len(costs) = Len(position)
          /\ \A t \in 1..Len(position) :
                costs[t] = (IF Changed(position, t) THEN cost_rate ELSE R(0))
          /\ LET k == Cardinality({t \in 1..Len(position) : Changed(position, t)})
             IN  rsum(costs) = RMul(cost_rate, R(k))
    /\ apply_transaction_costs(<<R(0), R(1), R(0), R(1)>>, <<1, 100>>)
          = <<R(0), <<1, 100>>, <<1, 100>>, <<1, 100>>>>

\* a frame that starts in the market, then one exit and one unchanged bar
C3_Witness ==
    /\ pc = "done"
    /\ cost_rate # R(0)
    /\ Len(position) >= 3
    /\ position[1] = R(1) /\ costs[1] = cost_rate
    /\ \E t \in 2..Len(position) : costs[t] = cost_rate
    /\ \E t \in 2..Len(position) : costs[t] = R(0)

\* C4 as stated: with fast >= slow sma_crossover_signals fails with
\* InvalidWindow and returns no rows.
C4_Original ==
    fast >= slow => ~SmaRan

\* C4 as amended: sma_crossover_signals does not validate its windows. For
\* positive windows with fast >= slow it returns one row per input row and
\* raises nothing; the signal follows the same crossover rule, so with
\* fast = slow every signal is 0.
C4_NoValidation ==
    (SmaRan /\ fast >= slow) =>
        /\ err # "InvalidWindow"
        /\ pc = "signalled" => err = "none"
        /\ Len(signal) = Len(Close)
        /\ Len(position) = Len(Close)
        /\ \A t \in 1..Len(Close) :
              signal[t] = (IF Crossed(Close, fast, slow, t) THEN 1 ELSE 0)
        /\ fast = slow => \A t \in 1..Len(Close) : signal[t] = 0

\* rows come back for fast > slow, one of them with signal 1
C4_Witness ==
    /\ SmaRan
    /\ fast > slow
    /\ Len(Close) >= 2
    /\ \E t \in 1..Len(Close) : signal[t] = 1

\* C5 as stated: an empty input is rejected by sma_crossover_signals and by
\* equity_and_perf; neither returns a result.
C5_Original ==
    Len(Close) = 0 => (~SmaRan /\ pc # "done")

\* C5 as amended: equity_and_perf fails on an empty input (the IndexError of
\* reading the last equity) and returns no Perf; sma_crossover_signals does
\* not reject it and returns an empty frame; main() is stopped earlier by
\* the ValueError of download_prices.
C5_EmptyInput ==
    Len(Close) = 0 =>
        /\ pc # "done"
        /\ perf = NoPerf /\ eq_s = <<>> /\ eq_bh = <<>>
        /\ pc = "error" => err = (IF entry = "main" THEN "ValueError"
                                  ELSE "IndexError")
        /\ SmaRan => (signal = <<>> /\ position = <<>> /\ entry = "signals")
        /\ (entry = "signals" /\ pc = "signalled") => err = "none"

\* the empty frame went through sma_crossover_signals and then made
\* equity_and_perf fail
C5_Witness ==
    /\ Len(Close) = 0
    /\ entry = "signals"
    /\ pc = "error"
    /\ err = "IndexError"

\* the number of defined return observations
NumReturns == Cardinality({t \in 1..Len(ret) : ~isna(ret[t])})

\* C6: with n the number of defined return observations, cagr is undefined
\* whenever n <= 252 (n = 100 and n = 252 included) and is
\* final_equity^(252/n) - 1 whenever n > 252 (first at n = 253).
C6_Cagr ==
    pc = "done" =>
        /\ NumReturns = Len(Close) - 1
        /\ NumReturns <= 252 => perf.cagr = NoCagr
        /\ NumReturns > 252 =>
              /\ perf.cagr.defined
              /\ perf.cagr.base = eq_s[Len(eq_s)]
              /\ perf.cagr.base = perf.final_equity
              /\ perf.cagr.exp[1] * NumReturns = 252 * perf.cagr.exp[2]

\* the first length that is annualised, on a run that traded
C6_Witness ==
    /\ pc = "done"
    /\ NumReturns = 253
    /\ perf.cagr.defined
    /\ perf.final_equity # R(1)

\* the defined strategy returns, in order
DefinedReturns == SelectSeq(strat_ret, LAMBDA x : x[2] # 0)

Squares(xs) == [i \in 1..Len(xs) |-> RMul(xs[i], xs[i])]

\* C7: sharpe is computed over the defined strategy returns and is
\* undefined whenever their sample standard deviation (divisor n-1) is not
\* > 0: all of them equal, or fewer than two. All-zero returns (constant
\* closes) give sharpe undefined with final_equity = 1. Whenever sigma > 0,
\* sharpe is (mu/sigma)*sqrt(252).
C7_Sharpe ==
    pc = "done" =>
        LET xs == DefinedReturns
            n  == Len(xs)
            sm == rsum(xs)
            sq == rsum(Squares(xs))
        IN  /\ perf.sharpe.defined
                 <=> (n >= 2 /\ \E i, j \in 1..n : xs[i] # xs[j])
            /\ ~perf.sharpe.defined => perf.sharpe = NoSharpe
            /\ perf.sharpe.defined =>
                  /\ RMul(perf.sharpe.mu, R(n)) = sm
                  /\ RMul(perf.sharpe.var, R(n * (n - 1)))
                        = RSub(RMul(R(n), sq), RMul(sm, sm))
                  /\ perf.sharpe.ann = 252
            /\ (\A i \in 1..n : xs[i] = R(0)) =>
                  (~perf.sharpe.defined /\ perf.final_equity = R(1))
            /\ (entry = "main" /\ \A t \in 1..Len(Close) : Close[t] = Close[1])
                  => (~perf.sharpe.defined /\ perf.final_equity = R(1))

\* constant closes through main(): several returns, all 0
C7_Witness ==
    /\ pc = "done"
    /\ entry = "main"
    /\ Len(Close) >= 3
    /\ \A t \in 1..Len(Close) : Close[t] = Close[1]
    /\ ~perf.sharpe.defined
    /\ perf.final_equity = R(1)

Underwater(t) == RLt(dd[t], R(0))
IsRun(a, b) == \A t \in a..b : Underwater(t)

\* C8: max_dd_days is the length of the longest run of consecutive bars with
\* drawdown < 0; a bar with drawdown = 0 ends the run; a non-decreasing
\* equity curve gives 0; max_dd_days <= length - 1.
C8_UnderwaterRun ==
    pc = "done" =>
        LET n == Len(dd)
            m == perf.max_dd_days
        IN  /\ \A a \in 1..n : \A b \in a..n : IsRun(a, b) => b - a + 1 <= m
            /\ m = 0 \/ \E a \in 1..n : \E b \in a..n :
                            IsRun(a, b) /\ b - a + 1 = m
            /\ (\A t \in 2..n : ~RLt(eq_s[t], eq_s[t - 1])) => m = 0
            /\ m <= n - 1

\* two underwater bars separated by a bar at the running maximum
C8_Witness ==
    /\ pc = "done"
    /\ perf.max_dd_days = 1
    /\ \E a, b, c \in 1..Len(dd) :
          a < b /\ b < c /\ Underwater(a) /\ dd[b] = R(0) /\ Underwater(c)

\* the compounding the claim describes: an undefined return counts as 0 and
\* the bar's cost is subtracted on every bar
RECURSIVE ClaimedEquity(_)
ClaimedEquity(t) ==
    IF t = 0 THEN R(1)
    ELSE LET r0 == IF isna(ret[t]) THEN R(0) ELSE ret[t]
         IN  RMul(ClaimedEquity(t - 1),
                  RSub(RAdd(R(1), RMul(position[t], r0)), costs[t]))

\* C9 as stated: strategy_equity[t] is the running product over k <= t of
\* (1 + position[k]*return[k] - cost[k]) with an undefined return counted
\* as 0 and cost[k] still subtracted, so strategy_equity[0] = 1 - cost[0].
C9_Claim ==
    pc = "done" => \A t \in 1..Len(eq_s) : eq_s[t] = ClaimedEquity(t)

\* C10: running_max[t] = max(strategy_equity[0..t]), drawdown[t] =
\* strategy_equity[t]/running_max[t] - 1 <= 0 at every t, = 0 exactly where
\* equity is at its running maximum; max_dd = min(drawdown) <= 0, and = 0
\* when equity never falls below an earlier peak.
C10_Drawdown ==
    pc = "done" =>
        LET n == Len(eq_s)
        IN  /\ Len(dd) = n /\ Len(roll_max) = n
            /\ \A t \in 1..n :
                  /\ \E k \in 1..t : roll_max[t] = eq_s[k]
                  /\ \A k \in 1..t : ~RGt(eq_s[k], roll_max[t])
                  /\ RMul(RAdd(dd[t], R(1)), roll_max[t]) = eq_s[t]
                  /\ ~RGt(dd[t], R(0))
                  /\ dd[t] = R(0) <=> eq_s[t] = roll_max[t]
                  /\ ~RLt(dd[t], perf.max_dd)
            /\ \E t \in 1..n : dd[t] = perf.max_dd
            /\ ~RGt(perf.max_dd, R(0))
            /\ perf.max_dd = R(0)
                  <=> \A t \in 1..n : \A k \in 1..t : ~RLt(eq_s[t], eq_s[k])

\* equity that rose to a new peak and later fell below it
C10_Witness ==
    /\ pc = "done"
    /\ RLt(perf.max_dd, R(0))
    /\ \E t \in 2..Len(eq_s) :
          /\ dd[t] = R(0)
          /\ RGt(eq_s[t], eq_s[1])
          /\ \E u \in (t + 1)..Len(eq_s) : RLt(dd[u], R(0))

====
